---- MODULE Spec2Model ----
(***************************************************************************)
(* A model of popmart_monitor.py: the LabubbuMonitor scraper.              *)
(*                                                                         *)
(*   Spec      continuous mode: __main__ -> run() -> get_products(), the   *)
(*             per-product diff loop, notify_available, the state file,    *)
(*             the error handler, the inter-scan sleep and the interrupt.  *)
(*   SpecCard  parse_product_card as a function of one card.               *)
(*   SpecPage  has_next_page as a function of one parsed page.             *)
(*                                                                         *)
(* Abstractions: an href is the sequence of its path segments (so that     *)
(* split('/')[-1] is its last element and urljoin prefixes the base url);  *)
(* timestamps (last_checked, the log's time line) are left out; the        *)
(* notification log is kept for the scan in progress only (the file is     *)
(* append-only, so this is the tail the scan has added).                   *)
(***************************************************************************)
EXTENDS Integers, Sequences, FiniteSets, TLC

VARIABLES
    pc,             \* where the process is: start, load, parse, diff, handler, sleep, exit
                    \* (fn in SpecCard and SpecPage)
    driver,         \* self.driver: "None" or "chrome"
    browser,        \* the browser session: none, live, dead (crashed), quit
    soup,           \* the page the browser shows (driver.page_source)
    page,           \* get_products: page
    retry_count,    \* get_products: retry_count
    products,       \* get_products: products, then run: products
    requested,      \* the page numbers passed to driver.get by the get_products call in progress
    timedOut,       \* wait_for_element printed "Timeout waiting for element" for the page shown
    idx,            \* run: position of the for loop in products
    product_states, \* self.product_states
    stateFile,      \* labubu_state.json
    notified,       \* notify_available calls of this scan: what was announced, and whether logged
    err,            \* the error this scan printed: none, nav, fetch, loop
    exitVia,        \* how run() was left: none, returned, propagated
    served,         \* the product cards the site has listed on the pages loaded in this scan
    arg,            \* SpecCard, SpecPage: the argument of the function under check
    ret             \* SpecCard, SpecPage: its result

vars == <<pc, driver, browser, soup, page, retry_count, products, requested, timedOut,
          idx, product_states, stateFile, notified, err, exitVia, served, arg, ret>>

\* ---------------------------------------------------------------- bounds

\* Product cards the site lists, over all the result pages of one scan; a page past
\* the last card is empty.
MaxCards == 2
\* SpecPage: children of the pagination container, elements after it.
MaxChildren == 3
MaxAfter == 1

\* get_products: max_retries = 3
max_retries == 3

\* ------------------------------------------------------------- the site

base_url == "https://www.popmart.com"

NoElem == [present |-> FALSE, text |-> ""]
Elem(t) == [present |-> TRUE, text |-> t]
NoLink == [present |-> FALSE, href |-> <<>>]
Link(h) == [present |-> TRUE, href |-> h]

HrefA == <<"us", "products", "a">>
HrefB == <<"us", "products", "b">>
\* an href ending in '/': its last segment is empty
HrefSlash == <<"us", "products", "">>

\* A product card: its first <a href>, the subtitle, title and price divs, whether the
\* out-of-stock span is there, and the image's src.
Card(l, s, t, p, tag, i) ==
    [link |-> l, subtitle |-> s, title |-> t, price |-> p, tag |-> tag, img |-> i]

CardAIn == Card(Link(HrefA), NoElem, Elem(" A "), Elem("$1"), FALSE, Elem("a.png"))
CardAOut == Card(Link(HrefA), NoElem, Elem("A"), Elem("$2"), TRUE, Elem("a.png"))
CardBIn == Card(Link(HrefB), Elem("S"), Elem("B"), Elem("$2"), FALSE, NoElem)
CardNoName == Card(Link(HrefB), Elem("S"), NoElem, Elem("$2"), FALSE, NoElem)

\* The cards the site serves in Spec.
SiteCards == {CardAIn, CardAOut, CardBIn, CardNoName}

\* The cards SpecCard parses.
RichCards ==
    { Card(l, s, t, p, tag, i) :
        l \in {NoLink, Link(HrefA), Link(HrefSlash)},
        s \in {NoElem, Elem("S")},
        t \in {NoElem, Elem(" A "), Elem(" ")},
        p \in {NoElem, Elem("$1")},
        tag \in BOOLEAN,
        i \in {NoElem, Elem("a.png")} }

\* The statement of parse_product_card's try block that raises, if any.
RaisePoints == {"none", "link", "name", "price", "tag", "image"}

SeqsUpTo(S, n) == UNION { [1..k -> S] : k \in 0..n }

\* An element of the page around the pagination: its tag, whether its class matches
\* active|current, and whether an <a> is nested in it.
Node(t, a, inner) == [tag |-> t, active |-> a, inner |-> inner]
SpanActive == Node("span", TRUE, FALSE)
SpanActiveLink == Node("span", TRUE, TRUE)
SpanPlain == Node("span", FALSE, FALSE)
LiActive == Node("li", TRUE, FALSE)
Anchor == Node("a", FALSE, FALSE)
Button == Node("button", FALSE, FALSE)

\* A parsed page: its product cards, whether div.index_pagination__RPTOo is there, the
\* container's children in order, and the elements that follow the container.
Soup(cs, hp, ch, af) == [cards |-> cs, hasPag |-> hp, children |-> ch, after |-> af]

NoPage == Soup(<<>>, FALSE, <<>>, <<>>)

\* The pagination layouts the site serves in Spec: none; a page with a next one; the
\* last page, with a footer link after the container.
SiteLayouts ==
    { <<FALSE, <<>>, <<>>>>,
      <<TRUE, <<SpanActive, Anchor>>, <<>>>>,
      <<TRUE, <<Anchor, SpanActive>>, <<Anchor>>>> }

\* What driver.get may load when the site has n cards left to list.
SiteSoups(n) ==
    { Soup(cs, l[1], l[2], l[3]) : cs \in SeqsUpTo(SiteCards, n), l \in SiteLayouts }

\* The pages SpecPage inspects.
RichSoups ==
    { Soup(<<>>, hp, ch, af) :
        hp \in BOOLEAN,
        ch \in SeqsUpTo({SpanActive, SpanActiveLink, SpanPlain, LiActive, Anchor, Button},
                        MaxChildren),
        af \in SeqsUpTo({Anchor, Button}, MaxAfter) }

\* ------------------------------------------------------ parse_product_card

\* str.strip() on the texts the site serves
Strip(s) ==
    CASE s = " A " -> "A"
      [] s = " " -> ""
      [] OTHER -> s

\* urljoin(self.base_url, href) for an absolute path
urljoin(base, href) == <<base>> \o href

\* href.split('/')[-1]
LastSegment(href) == IF href = <<>> THEN "" ELSE href[Len(href)]

DefaultProduct ==
    [id |-> "", name |-> "", url |-> <<>>, price |-> "", available |-> FALSE, image |-> ""]

ParseLink(card, product) ==
    IF card.link.present
    THEN [product EXCEPT !.url = urljoin(base_url, card.link.href),
                         !.id = LastSegment(card.link.href)]
    ELSE product

ParseName(card, product) ==
    IF card.subtitle.present /\ card.title.present
    THEN [product EXCEPT !.name = Strip(card.subtitle.text) \o " - " \o Strip(card.title.text)]
    ELSE IF card.title.present
         THEN [product EXCEPT !.name = Strip(card.title.text)]
         ELSE product

ParsePrice(card, product) ==
    IF card.price.present THEN [product EXCEPT !.price = Strip(card.price.text)] ELSE product

ParseTag(card, product) == [product EXCEPT !.available = ~card.tag]

ParseImage(card, product) ==
    IF card.img.present THEN [product EXCEPT !.image = card.img.text] ELSE product

\* One try block around the five extractions: a raise in one of them leaves the
\* product as the earlier ones made it.
parse_product_card(card, raiseAt) ==
    LET p0 == DefaultProduct
        p1 == IF raiseAt = "link" THEN p0 ELSE ParseLink(card, p0)
        p2 == IF raiseAt \in {"link", "name"} THEN p1 ELSE ParseName(card, p1)
        p3 == IF raiseAt \in {"link", "name", "price"} THEN p2 ELSE ParsePrice(card, p2)
        p4 == IF raiseAt \in {"link", "name", "price", "tag"} THEN p3 ELSE ParseTag(card, p3)
        p5 == IF raiseAt \in {"link", "name", "price", "tag", "image"} THEN p4
              ELSE ParseImage(card, p4)
    IN  p5

\* ----------------------------------------------------------- has_next_page

\* pagination.find('span', class_=re.compile('active|current')): the index of the first
\* such span among the children, 0 if there is none
RECURSIVE FindActive(_, _)
FindActive(children, i) ==
    IF i > Len(children) THEN 0
    ELSE IF children[i].tag = "span" /\ children[i].active THEN i
    ELSE FindActive(children, i + 1)

\* current_page.find_next('a'): an <a> among the elements that come after current_page
\* in the document: its own descendants, the container's later children and theirs,
\* and whatever follows the container
FindNextAnchor(s, i) ==
    \/ s.children[i].inner
    \/ \E j \in (i + 1)..Len(s.children) : s.children[j].tag = "a" \/ s.children[j].inner
    \/ \E j \in 1..Len(s.after) : s.after[j].tag = "a" \/ s.after[j].inner

has_next_page(s) ==
    IF ~s.hasPag THEN FALSE
    ELSE LET current_page == FindActive(s.children, 1)
         IN  IF current_page = 0 THEN FALSE ELSE FindNextAnchor(s, current_page)

\* --------------------------------------------------- the two function specs

Idle ==
    /\ pc = "fn"
    /\ driver = "None" /\ browser = "none" /\ soup = NoPage
    /\ page = 1 /\ retry_count = 0 /\ products = <<>> /\ requested = <<>>
    /\ timedOut = FALSE /\ idx = 1
    /\ product_states = <<>> /\ stateFile = [kind |-> "missing", data |-> <<>>]
    /\ notified = <<>> /\ err = "none" /\ exitVia = "none" /\ served = 0

IdleUnchanged ==
    UNCHANGED <<pc, driver, browser, soup, page, retry_count, products, requested, timedOut,
                idx, product_states, stateFile, notified, err, exitVia, served>>

InitCard ==
    /\ Idle
    /\ arg \in { [card |-> c, raiseAt |-> r] : c \in RichCards, r \in RaisePoints }
    /\ ret = [done |-> FALSE, product |-> DefaultProduct]

CallParse ==
    /\ pc = "fn" /\ ~ret.done
    /\ ret' = [done |-> TRUE, product |-> parse_product_card(arg.card, arg.raiseAt)]
    /\ UNCHANGED arg
    /\ IdleUnchanged

SpecCard == InitCard /\ [][CallParse]_vars

InitPage ==
    /\ Idle
    /\ arg \in RichSoups
    /\ ret = [done |-> FALSE, next |-> FALSE]

CallHasNext ==
    /\ pc = "fn" /\ ~ret.done
    /\ ret' = [done |-> TRUE, next |-> has_next_page(arg)]
    /\ UNCHANGED arg
    /\ IdleUnchanged

SpecPage == InitPage /\ [][CallHasNext]_vars

\* ------------------------------------------------------------ the state file

EmptyMap == <<>>

\* labubu_state.json: missing, unreadable, or the JSON object json.dump wrote
MissingFile == [kind |-> "missing", data |-> EmptyMap]
CorruptFile == [kind |-> "corrupt", data |-> EmptyMap]
JsonFile(m) == [kind |-> "json", data |-> m]

\* load_state: a missing file, or one json.load fails on, is the empty mapping
load_state(f) == IF f.kind = "json" THEN f.data ELSE EmptyMap

\* save_state_to_file (self.save_state is True in __main__)
save_state_to_file(states) == JsonFile(states)

\* ------------------------------------------------------------ run: the diff

\* self.product_states.get(product_id, {}).get('available', False)
was_available(states, id) == IF id \in DOMAIN states THEN states[id].available ELSE FALSE

\* a notifier that forgets the stored state: every available product is announced
ShouldNotifyAlways(states, product) == product.available

\* if product['available']: ... if not was_available: self.notify_available(product)
ShouldNotify(states, product) == product.available /\ ~was_available(states, product.id)

\* the dict assigned to self.product_states[product_id]
Snapshot(product) ==
    [name |-> product.name, url |-> product.url, price |-> product.price,
     available |-> product.available]

\* an update that keeps an entry already stored (setdefault in place of assignment)
UpdateStateIfAbsent(states, product) ==
    IF product.id \in DOMAIN states THEN states ELSE (product.id :> Snapshot(product)) @@ states

\* self.product_states[product_id] = {...}
UpdateState(states, product) == (product.id :> Snapshot(product)) @@ states

\* notify_available: the console block, then the block appended to labubu_available.log
Announcement(product, logged) ==
    [name |-> product.name, price |-> product.price, url |-> product.url, logged |-> logged]

\* the entry written before notify_available is called, so that a raise leaves it stored
StatesWrittenBeforeNotify(states, product) == UpdateState(states, product)

\* what a raise of notify_available leaves in self.product_states: the update is skipped
StatesAfterNotifyRaise(states, product) == states

\* --------------------------------------------------------- get_products

\* for card in product_cards: ... if product['name']: products.append(product)
RECURSIVE CollectPage(_, _, _)
CollectPage(acc, cards, i) ==
    IF i > Len(cards) THEN acc
    ELSE LET product == parse_product_card(cards[i], "none")
         IN  CollectPage(IF product.name # "" THEN Append(acc, product) ELSE acc, cards, i + 1)

\* a walk that does not stop at a page without cards
WalkIgnoresEmptyPage(s) == has_next_page(s)

\* the walk goes on to page + 1: the page held cards and has_next_page found a next one
WalkContinues(s) == s.cards # <<>> /\ has_next_page(s)

\* wait_for_element: the marker is there when the page shown holds a card; otherwise
\* TimeoutException is caught and None returned
MarkerTimesOut(s) == s.cards = <<>>

InitFiles ==
    { MissingFile, CorruptFile, JsonFile(EmptyMap),
      JsonFile(UpdateState(EmptyMap, parse_product_card(CardAOut, "none"))),
      JsonFile(UpdateState(EmptyMap, parse_product_card(CardAIn, "none"))) }

\* LabubbuMonitor.__init__ as __main__ calls it
Init ==
    /\ pc = "start"
    /\ driver = "None" /\ browser = "none" /\ soup = NoPage
    /\ page = 1 /\ retry_count = 0 /\ products = <<>> /\ requested = <<>>
    /\ timedOut = FALSE /\ idx = 1
    /\ stateFile \in InitFiles
    /\ product_states = load_state(stateFile)
    /\ notified = <<>> /\ err = "none" /\ exitVia = "none" /\ served = 0
    /\ arg = 0 /\ ret = 0

\* run's "except KeyboardInterrupt: break", then the clean-up after the loop; run returns
RunBreak ==
    /\ pc' = "exit"
    /\ exitVia' = "returned"
    /\ browser' = IF driver # "None" THEN "quit" ELSE browser

\* KeyboardInterrupt leaves run(); __main__ catches it and calls save_state_to_file
RunPropagates ==
    /\ pc' = "exit"
    /\ exitVia' = "propagated"
    /\ stateFile' = save_state_to_file(product_states)

\* get_products returns products to run: its locals (page, retry_count, soup) are gone,
\* and the record of its requests and of the site's cursor ends with the call
ReturnProducts ==
    /\ pc' = "diff"
    /\ soup' = NoPage /\ page' = 1 /\ retry_count' = 0
    /\ requested' = <<>> /\ timedOut' = FALSE /\ served' = 0

\* run: the top of the while loop, get_products up to its first page
StartScan ==
    /\ pc = "start"
    /\ products' = <<>> /\ page' = 1 /\ retry_count' = 0 /\ requested' = <<>>
    /\ timedOut' = FALSE /\ idx' = 1 /\ notified' = <<>> /\ served' = 0
    /\ \/ /\ driver = "None"
          /\ driver' = "chrome" /\ browser' = "live" /\ soup' = NoPage
          /\ pc' = "load" /\ err' = "none"
       \/ /\ driver = "None"
          \* webdriver.Chrome raises: get_products prints and returns the empty list
          /\ pc' = "diff" /\ err' = "fetch"
          /\ UNCHANGED <<driver, browser, soup>>
       \/ /\ driver # "None"
          /\ pc' = "load" /\ err' = "none"
          /\ UNCHANGED <<driver, browser, soup>>
    /\ UNCHANGED <<product_states, stateFile, exitVia, arg, ret>>

\* the retry loop: driver.get(url), the settle delay, wait_for_element
LoadPage ==
    /\ pc = "load"
    /\ \/ /\ browser = "live"
          /\ \E s \in SiteSoups(MaxCards - served) :
                /\ soup' = s
                /\ served' = served + Len(s.cards)
                /\ timedOut' = MarkerTimesOut(s)
          /\ requested' = Append(requested, page)
          /\ pc' = "parse"
          /\ UNCHANGED <<page, retry_count, err>>
       \/ \* driver.get raises
          IF retry_count + 1 = max_retries
          THEN ReturnProducts /\ err' = "nav"
          ELSE /\ retry_count' = retry_count + 1
               /\ requested' = Append(requested, page)
               /\ UNCHANGED <<pc, page, soup, timedOut, served, err>>
    /\ UNCHANGED <<driver, browser, products, idx, product_states, stateFile,
                   notified, exitVia, arg, ret>>

\* the browser dies while get_products is fetching
BrowserCrash ==
    /\ pc \in {"load", "parse"}
    /\ browser = "live"
    /\ browser' = "dead"
    /\ UNCHANGED <<pc, driver, soup, page, retry_count, products, requested, timedOut, idx,
                   product_states, stateFile, notified, err, exitVia, served, arg, ret>>

\* BeautifulSoup(self.driver.page_source), the cards, has_next_page
ParsePage ==
    /\ pc = "parse"
    /\ IF browser # "live"
       THEN \* page_source raises: "except Exception" of get_products, return products
            /\ ReturnProducts /\ err' = "fetch"
            /\ UNCHANGED products
       ELSE /\ products' = CollectPage(products, soup.cards, 1)
            /\ IF WalkContinues(soup)
               THEN /\ pc' = "load" /\ page' = page + 1 /\ retry_count' = 0
                    /\ UNCHANGED <<soup, requested, timedOut, served>>
               ELSE ReturnProducts
            /\ err' = err
    /\ UNCHANGED <<driver, browser, idx, product_states, stateFile, notified, exitVia,
                   arg, ret>>

\* one pass of "for product in products"
DiffProduct ==
    /\ pc = "diff"
    /\ idx <= Len(products)
    /\ LET product == products[idx]
       IN  \/ \* the pass completes
              /\ notified' = IF ShouldNotify(product_states, product)
                             THEN Append(notified, Announcement(product, TRUE))
                             ELSE notified
              /\ product_states' = UpdateState(product_states, product)
              /\ idx' = idx + 1
              /\ UNCHANGED <<pc, err, exitVia, browser>>
           \/ \* notify_available raises on the log file, after the console block
              /\ ShouldNotify(product_states, product)
              /\ notified' = Append(notified, Announcement(product, FALSE))
              /\ product_states' = StatesAfterNotifyRaise(product_states, product)
              /\ pc' = "handler" /\ err' = "loop"
              /\ UNCHANGED <<idx, exitVia, browser>>
           \/ \* KeyboardInterrupt between notify_available and the update
              /\ ShouldNotify(product_states, product)
              /\ notified' = Append(notified, Announcement(product, TRUE))
              /\ RunBreak
              /\ UNCHANGED <<idx, product_states, err>>
    /\ UNCHANGED <<driver, soup, page, retry_count, products, requested, timedOut,
                   stateFile, served, arg, ret>>

\* self.save_state_to_file() after the loop
SaveState ==
    /\ pc = "diff"
    /\ idx > Len(products)
    /\ \/ /\ stateFile' = save_state_to_file(product_states)
          /\ pc' = "sleep"
          /\ UNCHANGED <<err, exitVia, browser>>
       \/ \* open() raises
          /\ pc' = "handler" /\ err' = "loop"
          /\ UNCHANGED <<stateFile, exitVia, browser>>
    /\ UNCHANGED <<driver, soup, page, retry_count, products, requested, timedOut, idx,
                   product_states, notified, served, arg, ret>>

\* "except Exception": reset the driver (quit is best effort: its bare except swallows
\* whatever it raises)
Handler ==
    /\ pc = "handler"
    /\ IF driver # "None"
       THEN driver' = "None" /\ browser' = "quit"
       ELSE UNCHANGED <<driver, browser>>
    /\ pc' = "sleep"
    /\ UNCHANGED <<soup, page, retry_count, products, requested, timedOut, idx,
                   product_states, stateFile, notified, err, exitVia, served, arg, ret>>

\* time.sleep(self.check_interval) runs out
Sleep ==
    /\ pc = "sleep"
    /\ pc' = "start"
    /\ UNCHANGED <<driver, browser, soup, page, retry_count, products, requested, timedOut,
                   idx, product_states, stateFile, notified, err, exitVia, served, arg, ret>>

\* KeyboardInterrupt inside run's try: in get_products or at a pass of the diff loop
InterruptInScan ==
    /\ pc \in {"start", "load", "parse", "diff"}
    /\ RunBreak
    /\ UNCHANGED <<driver, soup, page, retry_count, products, requested, timedOut, idx,
                   product_states, stateFile, notified, err, served, arg, ret>>

\* KeyboardInterrupt outside run's try: in the handler's prints or in time.sleep
InterruptOutsideTry ==
    /\ pc \in {"handler", "sleep"}
    /\ RunPropagates
    /\ UNCHANGED <<driver, browser, soup, page, retry_count, products, requested, timedOut,
                   idx, product_states, notified, err, served, arg, ret>>

Next ==
    \/ StartScan
    \/ LoadPage
    \/ BrowserCrash
    \/ ParsePage
    \/ DiffProduct
    \/ SaveState
    \/ Handler
    \/ Sleep
    \/ InterruptInScan
    \/ InterruptOutsideTry

Spec == Init /\ [][Next]_vars

\* ================================================================ the claims

\* the pass of the for loop over products[idx] runs to its end in this step
PassCompletes == pc = "diff" /\ idx <= Len(products) /\ idx' = idx + 1

\* the stored state for id is absent or has available = false
StoredUnavailable(states, id) == id \notin DOMAIN states \/ ~states[id].available

\* the id a notification block is about: the last path segment of its url
NotifiedId(e) == IF e.url = <<>> THEN "" ELSE e.url[Len(e.url)]

\* a notify_available call is made in this step
Notifies == notified' # notified /\ notified' # <<>>

ExpectedEntry(p) ==
    [name |-> p.name, url |-> p.url, price |-> p.price, available |-> p.available]

\* C1: a notification is emitted for a scraped product if and only if it is scraped
\* available and the stored state for its id is absent or unavailable when it is
\* evaluated: no step but a pass over such a product announces anything, a completed
\* pass over such a product announces and logs exactly that product and leaves its
\* entry available = true, and a completed pass over any other product (unavailable, or
\* already stored available: the later scans of the scenario) announces nothing.
C1_NotifyIffNewlyAvailable ==
    [][ /\ Notifies =>
            /\ pc = "diff" /\ idx <= Len(products)
            /\ products[idx].available
            /\ StoredUnavailable(product_states, products[idx].id)
            /\ Len(notified') = Len(notified) + 1
            /\ notified'[Len(notified')].name = products[idx].name
            /\ notified'[Len(notified')].url = products[idx].url
        /\ PassCompletes =>
            LET p == products[idx]
            IN  /\ (p.available /\ StoredUnavailable(product_states, p.id))
                      => /\ notified' = Append(notified,
                                [name |-> p.name, price |-> p.price, url |-> p.url,
                                 logged |-> TRUE])
                         /\ product_states'[p.id].available
                /\ ~(p.available /\ StoredUnavailable(product_states, p.id))
                      => notified' = notified
                /\ product_states'[p.id].available = p.available ]_vars

\* C1 witness: one scan observed the same id available twice; the first pass notified
\* (the entry was unavailable), the second did not (the entry was available by then).
C1_Witness ==
    /\ pc = "diff" /\ idx = 3 /\ Len(products) = 2
    /\ products[1].id = "a" /\ products[2].id = "a"
    /\ products[1].available /\ products[2].available
    /\ Len(notified) = 1
    /\ product_states["a"].available

\* C2 as claimed: whenever the process has exited on an interrupt (the only way it
\* exits), the state file's mapping equals the in-memory mapping. (The claim adds that
\* the interrupt does not leave run(); exitVia = "propagated" is where it does.)
C2_InterruptPersistsState ==
    pc = "exit" => load_state(stateFile) = product_states

\* C3 as claimed: whenever the process has exited on an interrupt with a driver handle
\* set, that browser session has been quit.
C3_InterruptQuitsBrowser ==
    (pc = "exit" /\ driver # "None") => browser = "quit"

\* C4 as claimed: a scan that printed an error reaches the sleep with the browser session
\* torn down and the driver handle cleared.
C4_ErrorResetsDriver ==
    (pc = "sleep" /\ err # "none") => driver = "None"

\* C5 as claimed: a page whose marker did not appear within the timeout is a failed
\* attempt: it is counted in retry_count and the page is to be loaded again; it is
\* never handed to the parser.
C5_MarkerTimeoutRetries ==
    timedOut => /\ pc = "load"
                /\ retry_count >= 1

\* C6: an entry turns available = true, in memory, only in a step that completed a
\* logged notification for that id, and in the state file only when memory already held
\* it available; a pass that ends in a raise of the notification or in an interrupt
\* leaves memory and file as they were, so the next scan finds the product unavailable.
C6_AvailableOnlyAfterNotification ==
    [][ /\ \A id \in DOMAIN product_states' :
              (product_states'[id].available /\ StoredUnavailable(product_states, id))
                 => /\ Len(notified') = Len(notified) + 1
                    /\ notified'[Len(notified')].logged
                    /\ NotifiedId(notified'[Len(notified')]) = id
        /\ \A id \in DOMAIN load_state(stateFile') :
              (load_state(stateFile')[id].available
                 /\ StoredUnavailable(load_state(stateFile), id))
                 => ~StoredUnavailable(product_states, id)
        /\ (Notifies /\ pc' \in {"handler", "exit"})
                 => /\ product_states' = product_states
                    /\ stateFile' = stateFile
                    /\ StoredUnavailable(product_states', products[idx].id) ]_vars

\* C6 witness: notify_available raised for a newly available product; its entry is
\* still absent or unavailable.
C6_Witness ==
    /\ pc = "handler" /\ notified # <<>>
    /\ ~notified[Len(notified)].logged
    /\ products[idx].available
    /\ StoredUnavailable(product_states, products[idx].id)

\* the for loop of this scan has run to completion
LoopDone == (pc = "diff" /\ idx > Len(products)) \/ (pc = "sleep" /\ err # "loop")

\* C7: after a scan whose diff loop ran to completion every observed id holds the
\* name, url, price and available flag of its last observation in the scan; an entry
\* changes or appears only in the pass over a product of its id, whether or not that
\* pass notified, and no key is ever removed.
C7_LastObservationWins ==
    /\ [](LoopDone =>
            \A i \in 1..Len(products) :
                (\A j \in (i + 1)..Len(products) : products[j].id # products[i].id)
                   => /\ products[i].id \in DOMAIN product_states
                      /\ product_states[products[i].id] = ExpectedEntry(products[i]))
    /\ [][ /\ DOMAIN product_states \subseteq DOMAIN product_states'
           /\ \A id \in DOMAIN product_states' :
                 (id \notin DOMAIN product_states \/ product_states'[id] # product_states[id])
                    => /\ pc = "diff" /\ idx <= Len(products)
                       /\ products[idx].id = id
           /\ PassCompletes =>
                 product_states' =
                    [id \in DOMAIN product_states \cup {products[idx].id} |->
                        IF id = products[idx].id THEN ExpectedEntry(products[idx])
                        ELSE product_states[id]] ]_vars

\* C7 witness: a completed loop overwrote a stored available entry of "a" with an
\* unavailable observation (no notification) and left the entry of "b" alone.
C7_Witness ==
    /\ LoopDone /\ pc = "sleep"
    /\ Len(products) = 1 /\ products[1].id = "a" /\ ~products[1].available
    /\ notified = <<>>
    /\ DOMAIN product_states = {"a", "b"}
    /\ load_state(stateFile) = product_states

\* C8 as claimed: a failure while extracting one field leaves only that field at its
\* default; every other field is what its extraction yields, and available is the
\* absence of the out-of-stock tag whatever failed elsewhere.
C8_FieldFailureIsolated ==
    (pc = "fn" /\ ret.done /\ "card" \in DOMAIN arg) =>
        LET c == arg.card
            got == ret.product
            d == DefaultProduct
        IN  /\ arg.raiseAt # "link" =>
                  /\ got.url = ParseLink(c, d).url
                  /\ got.id = ParseLink(c, d).id
            /\ arg.raiseAt # "name" => got.name = ParseName(c, d).name
            /\ arg.raiseAt # "price" => got.price = ParsePrice(c, d).price
            /\ arg.raiseAt # "image" => got.image = ParseImage(c, d).image
            /\ arg.raiseAt # "tag" => got.available = ~c.tag

\* C9 as claimed: has_next_page returns true only when the pagination container is
\* there and a sibling control follows the active element among its children.
C9_NextOnlyWithFollowingSibling ==
    (pc = "fn" /\ ret.done /\ "hasPag" \in DOMAIN arg /\ ret.next) =>
        /\ arg.hasPag
        /\ \E i \in 1..Len(arg.children) :
              /\ arg.children[i].active
              /\ i < Len(arg.children)

\* the products of the cards of one page that have a name, in DOM order
NamedOf(cards) ==
    SelectSeq([i \in 1..Len(cards) |-> parse_product_card(cards[i], "none")],
              LAMBDA p : p.name # "")

\* C10: the pages requested in a scan start at 1 and go up by at most one, never down;
\* page n + 1 is first requested while the browser still shows page n, which held
\* cards, reported a next page and has been parsed into the list; parsing a page
\* appends exactly its named cards in DOM order; a page with no card or no next page
\* ends the walk, and nothing is requested or appended once it has ended.
C10_PagesInOrder ==
    /\ [](/\ requested # <<>> => requested[1] = 1
          /\ \A i \in 1..(Len(requested) - 1) :
                requested[i + 1] \in {requested[i], requested[i] + 1}
          /\ pc \in {"load", "parse"} => page <= MaxCards + 1)
    /\ [][ /\ (requested' # requested /\ requested' # <<>>) =>
                /\ pc = "load"
                /\ requested' = Append(requested, page)
                /\ (requested # <<>> /\ page # requested[Len(requested)]) =>
                      /\ page = requested[Len(requested)] + 1
                      /\ soup.cards # <<>>
                      /\ has_next_page(soup)
                      /\ Len(products) >= Len(NamedOf(soup.cards))
                      /\ SubSeq(products, Len(products) - Len(NamedOf(soup.cards)) + 1,
                                Len(products)) = NamedOf(soup.cards)
           /\ (pc = "parse" /\ pc' \in {"load", "diff"} /\ browser = "live") =>
                /\ products' = products \o NamedOf(soup.cards)
                /\ (soup.cards = <<>> \/ ~has_next_page(soup)) => pc' = "diff"
                /\ pc' = "load" => page' = page + 1
           /\ (pc # "parse" /\ pc # "start") => products' = products ]_vars

\* C10 witness: page 1 was requested twice (one failed load), parsed into one product
\* and reported a next page; page 2 is loaded, holds a card and is the last one.
C10_Witness ==
    /\ pc = "parse" /\ page = 2
    /\ requested = <<1, 1, 2>>
    /\ Len(products) = 1 /\ products[1].id = "a"
    /\ soup.cards # <<>> /\ ~has_next_page(soup)

====
